---- MODULE Spec2Model ----
(***************************************************************************)
(* The task-tracking web application of src/app: the two tables of         *)
(* models.py (User, Task) and the request handlers of main.py, run against *)
(* the store that database.py configures by default (sqlite:///./tasks.db: *)
(* rowids are max+1, so the id of a deleted last row is handed out again,  *)
(* foreign keys are declared but not enforced, the unique index on         *)
(* user.username is enforced).                                             *)
(*                                                                         *)
(* Python strings that the code parses or searches (cookie values,         *)
(* deadlines, usernames) are sequences of one-character strings; strings   *)
(* the code only stores or compares (titles, priorities, flash messages)   *)
(* are TLA+ strings.                                                       *)
(*                                                                         *)
(* signup, add_task and delete_account read the store, and write it in a   *)
(* later statement: each is two actions, with the request in `inflight`    *)
(* between them, so that other requests can run in between.  The other     *)
(* handlers touch one row in one session and are one action each.          *)
(***************************************************************************)
EXTENDS Integers, Sequences, FiniteSets, Bags, TLC

VARIABLES
    users,         \* rows of table user: [id, username, hashed_password]
    tasks,         \* rows of table task: [id, title, deadline, priority, status, owner_id]
    inflight,      \* bag of requests between their read and their commit
    today,         \* what date.today() returns on the server
    response,      \* the response of the request handled last
    last_request,  \* route, resolved identity and path id of that request
    trail          \* statuses a task went through in the latest run of
                   \* consecutive effective /complete requests on it

vars == <<users, tasks, inflight, today, response, last_request, trail>>

----------------------------------------------------------------------------
(* Bounds of the model. *)

MaxUserId == 2
MaxTaskId == 2
MaxInFlight == 2

----------------------------------------------------------------------------
(* Strings. *)

Digits == {"0", "1", "2", "3", "4", "5", "6", "7", "8", "9"}

DigitVal(c) ==
    CASE c = "0" -> 0 [] c = "1" -> 1 [] c = "2" -> 2 [] c = "3" -> 3
      [] c = "4" -> 4 [] c = "5" -> 5 [] c = "6" -> 6 [] c = "7" -> 7
      [] c = "8" -> 8 [] c = "9" -> 9

DigitChar(n) ==
    CASE n = 0 -> "0" [] n = 1 -> "1" [] n = 2 -> "2" [] n = 3 -> "3"
      [] n = 4 -> "4" [] n = 5 -> "5" [] n = 6 -> "6" [] n = 7 -> "7"
      [] n = 8 -> "8" [] n = 9 -> "9"

AllDigits(s) == Len(s) > 0 /\ \A i \in 1..Len(s) : s[i] \in Digits

RECURSIVE DecimalValue(_)
DecimalValue(s) ==
    IF Len(s) = 0 THEN 0
    ELSE 10 * DecimalValue(SubSeq(s, 1, Len(s) - 1)) + DigitVal(s[Len(s)])

\* int(user_id), main.py:86, on the strings of CookieValues: decimal digits
\* give their value, anything else raises ValueError.
int(s) ==
    IF AllDigits(s) THEN [exc |-> "", value |-> DecimalValue(s)]
    ELSE [exc |-> "ValueError", value |-> 0]

\* str(user.id), main.py:220
RECURSIVE str(_)
str(n) ==
    IF n < 10 THEN <<DigitChar(n)>>
    ELSE str(n \div 10) \o <<DigitChar(n % 10)>>

\* "@" in user.username, main.py:141
HasAt(s) == \E i \in 1..Len(s) : s[i] = "@"

----------------------------------------------------------------------------
(* Dates. *)

Date(y, m, d) == [year |-> y, month |-> m, day |-> d]

IsLeap(y) == (y % 4 = 0 /\ y % 100 # 0) \/ y % 400 = 0

DaysInMonth(y, m) ==
    IF m = 2 THEN (IF IsLeap(y) THEN 29 ELSE 28)
    ELSE IF m \in {4, 6, 9, 11} THEN 30 ELSE 31

\* date.fromisoformat(deadline), main.py:127, on the strings of
\* DeadlineInputs: YYYY-MM-DD with a real calendar day, else ValueError.
fromisoformat(s) ==
    IF /\ Len(s) = 10
       /\ s[5] = "-" /\ s[8] = "-"
       /\ \A i \in {1, 2, 3, 4, 6, 7, 9, 10} : s[i] \in Digits
    THEN LET y == DecimalValue(SubSeq(s, 1, 4))
             m == DecimalValue(SubSeq(s, 6, 7))
             d == DecimalValue(SubSeq(s, 9, 10))
         IN  IF y >= 1 /\ m \in 1..12 /\ d \in 1..DaysInMonth(y, m)
             THEN [exc |-> "", date |-> Date(y, m, d)]
             ELSE [exc |-> "ValueError", date |-> Date(0, 0, 0)]
    ELSE [exc |-> "ValueError", date |-> Date(0, 0, 0)]

\* deadline_date < date.today(), main.py:128
DateLT(a, b) ==
    \/ a.year < b.year
    \/ a.year = b.year /\ a.month < b.month
    \/ a.year = b.year /\ a.month = b.month /\ a.day < b.day

----------------------------------------------------------------------------
(* Inputs of the requests. *)

Usernames == { <<"a", "@", "x">>, <<"b", "o", "b">> }

\* Passwords tried at login, and the ones accounts are made with.
Passwords == {"pw1", "pw2"}
NewPasswords == {"pw1"}

Titles == {"Report"}

\* Status and Priority, models.py:6-13
Pending == "Pending"
Completed == "Completed"
PriorityInputs == {"Normal", "High"}

Days == { Date(2026, 11, 2), Date(2026, 11, 3) }

DeadlineInputs ==
    { <<"2", "0", "2", "6", "-", "1", "1", "-", "0", "1">>,
      <<"2", "0", "2", "6", "-", "1", "1", "-", "0", "2">>,
      <<"2", "0", "2", "6", "-", "1", "1", "-", "3", "1">>,
      <<"s", "o", "o", "n">> }

\* Values of the user_id cookie a client may send: empty, text, an id.
CookieValues ==
    { <<>>, <<"x">> } \cup { str(n) : n \in 1..MaxUserId }

\* request.cookies
CookieJars == { {} } \cup { { <<"user_id", v>> } : v \in CookieValues }

----------------------------------------------------------------------------
(* The store. *)

\* owner_id of a task row whose owner was cleared (SQL NULL)
NoId == 0

NoUser == [id |-> NoId, username |-> <<>>, hashed_password |-> <<>>]

Max(S) == CHOOSE x \in S : \A y \in S : y <= x

\* The id the store gives a new row (id is the INTEGER PRIMARY KEY of the
\* table, models.py:16 and 22): one more than the largest id in the table.
NextId(rows) == IF rows = {} THEN 1 ELSE Max({r.id : r \in rows}) + 1

\* session.get(User, id)
GetUser(id) ==
    IF \E u \in users : u.id = id
    THEN CHOOSE u \in users : u.id = id
    ELSE NoUser

\* select(User).where(User.username == username)).first()
UserByName(username) ==
    IF \E u \in users : u.username = username
    THEN CHOOSE u \in users : u.username = username
    ELSE NoUser

\* UniqueViolation of a table without the unique index.
UniqueViolationOff(username) == FALSE

\* The unique index on user.username (models.py:17) refuses the insert.
UniqueViolation(username) == \E u \in users : u.username = username

\* session.get(Task, task_id) finds a row
TaskExists(task_id) == \E t \in tasks : t.id = task_id

TaskById(task_id) == CHOOSE t \in tasks : t.id = task_id

\* Owns with the ownership test left out.
OwnsAnything(task, user) == TRUE

\* task.owner_id == user.id, main.py:160 and 177
Owns(task, user) == task.owner_id = user.id

\* select(Task).where(Task.owner_id == user.id)
TasksOf(user_id) == {t \in tasks : t.owner_id = user_id}

\* .order_by(Task.deadline): every order of the rows that is ascending in
\* the deadline (rows with equal deadlines come in any order).
OrderByDeadline(rows) ==
    {s \in [1..Cardinality(rows) -> rows] :
        /\ \A i, j \in DOMAIN s : i # j => s[i] # s[j]
        /\ \A i, j \in DOMAIN s : i < j => ~DateLT(s[j].deadline, s[i].deadline)}

----------------------------------------------------------------------------
(* app/auth.py *)

get_password_hash(password) == <<"hash", password>>

verify_password(password, hashed_password) ==
    hashed_password = get_password_hash(password)

----------------------------------------------------------------------------
(* Responses. *)

Response(kind, target, status_code, flash, cookie_op, cookie_value, listing, jobs) ==
    [kind |-> kind, target |-> target, status_code |-> status_code,
     flash |-> flash, cookie_op |-> cookie_op, cookie_value |-> cookie_value,
     tasks |-> listing, background |-> jobs]

NoResponse == Response("", "", 0, "", "", <<>>, <<>>, <<>>)

RedirectResponse(url, status_code) ==
    Response("redirect", url, status_code, "", "", <<>>, <<>>, <<>>)

\* response.set_cookie(key="flash_msg", value=message, max_age=5)
WithFlash(resp, message) == [resp EXCEPT !.flash = message]

TemplateResponse(name, error, listing) ==
    Response("template", name, 200, error, "", <<>>, listing, <<>>)

\* An exception no handler catches: the framework answers 500.
ServerError(exc) == Response("error", exc, 500, "", "", <<>>, <<>>, <<>>)

Handled(route, identity, task_id, resp) ==
    /\ response' = resp
    /\ last_request' = [route |-> route, identity |-> identity, task_id |-> task_id]

\* main.py:82-86
get_current_user(cookies) ==
    LET sent == {kv \in cookies : kv[1] = "user_id"}
        user_id == IF sent = {} THEN <<>> ELSE (CHOOSE kv \in sent : TRUE)[2]
    IN  IF sent = {} \/ user_id = <<>> THEN [exc |-> "", user |-> NoUser]
        ELSE IF int(user_id).exc # "" THEN [exc |-> int(user_id).exc, user |-> NoUser]
        ELSE [exc |-> "", user |-> GetUser(int(user_id).value)]

----------------------------------------------------------------------------
(* Handlers. *)

Init ==
    /\ users = {}
    /\ tasks = {}
    /\ inflight = EmptyBag
    /\ today \in Days
    /\ response = NoResponse
    /\ last_request = [route |-> "", identity |-> NoId, task_id |-> NoId]
    /\ trail = <<>>

\* GET /, main.py:96-110
dashboard(cookies) ==
    LET auth == get_current_user(cookies) IN
    /\ UNCHANGED <<users, tasks, inflight, today>>
    /\ trail' = <<>>
    /\ IF auth.exc # "" THEN Handled("/", NoId, NoId, ServerError(auth.exc))
       ELSE IF auth.user = NoUser
       THEN Handled("/", NoId, NoId, RedirectResponse("/login", 307))
       ELSE \E listing \in OrderByDeadline(TasksOf(auth.user.id)) :
               Handled("/", auth.user.id, NoId,
                       TemplateResponse("index.html", "", listing))

\* Toggle that only ever completes.
ToggleOneWay(status) == Completed

\* if task.status == Status.PENDING: ... else: ..., main.py:161-164
Toggle(status) == IF status = Pending THEN Completed ELSE Pending

\* GET /complete/{task_id}, main.py:154-168
complete_task(cookies, task_id) ==
    LET auth == get_current_user(cookies) IN
    /\ UNCHANGED <<users, inflight, today>>
    /\ IF auth.exc # ""
       THEN /\ Handled("/complete", NoId, NoId, ServerError(auth.exc))
            /\ UNCHANGED tasks /\ trail' = <<>>
       ELSE IF auth.user = NoUser
       THEN /\ Handled("/complete", NoId, NoId, RedirectResponse("/login", 307))
            /\ UNCHANGED tasks /\ trail' = <<>>
       ELSE /\ Handled("/complete", auth.user.id, task_id, RedirectResponse("/", 303))
            /\ IF TaskExists(task_id) /\ Owns(TaskById(task_id), auth.user)
               THEN LET task == TaskById(task_id)
                        after == [task EXCEPT !.status = Toggle(task.status)]
                        again == /\ trail # <<>>
                                 /\ last_request.route = "/complete"
                                 /\ last_request.task_id = task_id
                    IN  /\ tasks' = (tasks \ {task}) \cup {after}
                        /\ trail' = IF again
                                    THEN <<trail[Len(trail) - 1], trail[Len(trail)],
                                           after.status>>
                                    ELSE <<task.status, after.status>>
               ELSE /\ UNCHANGED tasks /\ trail' = <<>>

\* GET /delete/{task_id}, main.py:171-183
delete_task(cookies, task_id) ==
    LET auth == get_current_user(cookies) IN
    /\ UNCHANGED <<users, inflight, today>>
    /\ trail' = <<>>
    /\ IF auth.exc # ""
       THEN /\ Handled("/delete", NoId, NoId, ServerError(auth.exc))
            /\ UNCHANGED tasks
       ELSE IF auth.user = NoUser
       THEN /\ Handled("/delete", NoId, NoId, RedirectResponse("/login", 307))
            /\ UNCHANGED tasks
       ELSE /\ Handled("/delete", auth.user.id, task_id,
                       WithFlash(RedirectResponse("/", 303), "Task deleted"))
            /\ IF TaskExists(task_id) /\ Owns(TaskById(task_id), auth.user)
               THEN tasks' = tasks \ {TaskById(task_id)}
               ELSE UNCHANGED tasks

\* ShouldNotify that looks at the priority alone.
ShouldNotifyHighOnly(priority, username) == priority = "High"

\* priority == "High" and "@" in user.username, main.py:141
ShouldNotify(priority, username) == priority = "High" /\ HasAt(username)

\* background_tasks.add_task(send_email_sync, ...), main.py:142-147
EmailJob(email_to, title, deadline) ==
    [subject |-> "High Priority Task Assigned", email_to |-> email_to,
     body_data |-> [title |-> title, deadline |-> deadline]]

\* IsPast that compares the years alone.
IsPastByYear(deadline_date) == deadline_date.year < today.year

\* deadline_date < date.today(), main.py:128
IsPast(deadline_date) == DateLT(deadline_date, today)

\* POST /add up to the validation, main.py:113-133.  A request that passes
\* goes on with its user loaded in the session.
add_task(cookies, title, deadline, priority) ==
    LET auth == get_current_user(cookies)
        parsed == fromisoformat(deadline)
    IN
    /\ UNCHANGED <<users, tasks, today>>
    /\ trail' = <<>>
    /\ IF auth.exc # ""
       THEN /\ Handled("/add", NoId, NoId, ServerError(auth.exc))
            /\ UNCHANGED inflight
       ELSE IF auth.user = NoUser
       THEN /\ Handled("/add", NoId, NoId, RedirectResponse("/login", 307))
            /\ UNCHANGED inflight
       ELSE IF parsed.exc # ""
       THEN /\ Handled("/add", auth.user.id, NoId, RedirectResponse("/", 303))
            /\ UNCHANGED inflight
       ELSE IF IsPast(parsed.date)
       THEN /\ Handled("/add", auth.user.id, NoId,
                       WithFlash(RedirectResponse("/", 303),
                                 "Error: Cannot add tasks in the past!"))
            /\ UNCHANGED inflight
       ELSE /\ BagCardinality(inflight) < MaxInFlight
            /\ Handled("/add", auth.user.id, NoId, NoResponse)
            /\ inflight' = inflight (+) SetToBag({
                   [op |-> "add_task", user_id |-> auth.user.id, title |-> title,
                    deadline |-> deadline, deadline_date |-> parsed.date,
                    priority |-> priority]})

\* POST /add from the insert on, main.py:135-151.  commit() expires the
\* loaded user, so user.username in line 141 reads the row again: a row
\* that is gone raises, after the task was committed.
add_task_commit(req) ==
    LET new_task == [id |-> NextId(tasks), title |-> req.title,
                     deadline |-> req.deadline_date, priority |-> req.priority,
                     status |-> Pending, owner_id |-> req.user_id]
        user == GetUser(req.user_id)
        added == WithFlash(RedirectResponse("/", 303), "Task added successfully!")
    IN
    /\ req.op = "add_task"
    /\ new_task.id <= MaxTaskId
    /\ inflight' = inflight (-) SetToBag({req})
    /\ tasks' = tasks \cup {new_task}
    /\ UNCHANGED <<users, today>>
    /\ trail' = <<>>
    /\ IF user = NoUser
       THEN Handled("/add", req.user_id, new_task.id, ServerError("ObjectDeletedError"))
       ELSE IF ShouldNotify(req.priority, user.username)
       THEN Handled("/add", req.user_id, new_task.id,
                    [added EXCEPT !.background =
                        <<EmailJob(user.username, req.title, req.deadline)>>])
       ELSE Handled("/add", req.user_id, new_task.id, added)

\* send_email_sync run after the response, main.py:22-78: it prints, and
\* sends mail when the credentials are set; nothing of the application
\* changes.
send_email_sync ==
    /\ response.background # <<>>
    /\ response' = [response EXCEPT !.background = Tail(@)]
    /\ UNCHANGED <<users, tasks, inflight, today, last_request, trail>>

\* GET /delete_account up to the select of the tasks, main.py:186-192
delete_account(cookies) ==
    LET auth == get_current_user(cookies) IN
    /\ UNCHANGED <<users, tasks, today>>
    /\ trail' = <<>>
    /\ IF auth.exc # ""
       THEN /\ Handled("/delete_account", NoId, NoId, ServerError(auth.exc))
            /\ UNCHANGED inflight
       ELSE IF auth.user = NoUser
       THEN /\ Handled("/delete_account", NoId, NoId, RedirectResponse("/login", 307))
            /\ UNCHANGED inflight
       ELSE /\ BagCardinality(inflight) < MaxInFlight
            /\ Handled("/delete_account", auth.user.id, NoId, NoResponse)
            /\ inflight' = inflight (+) SetToBag({
                   [op |-> "delete_account", user_id |-> auth.user.id,
                    task_ids |-> {t.id : t \in TasksOf(auth.user.id)}]})

\* What the flush of session.delete(user) does to a task row that was not
\* deleted in the session: the relationship User.tasks (models.py:19) has
\* no delete cascade, so a row still pointing at the user gets owner_id
\* NULL.
Disown(task, user_id) ==
    IF task.owner_id = user_id THEN [task EXCEPT !.owner_id = NoId] ELSE task

\* GET /delete_account from the deletes on, main.py:193-204
delete_account_commit(req) ==
    /\ req.op = "delete_account"
    /\ inflight' = inflight (-) SetToBag({req})
    /\ tasks' = {Disown(t, req.user_id) : t \in {x \in tasks : x.id \notin req.task_ids}}
    /\ users' = {u \in users : u.id # req.user_id}
    /\ UNCHANGED today
    /\ trail' = <<>>
    /\ Handled("/delete_account", req.user_id, NoId,
               [WithFlash(RedirectResponse("/login", 303), "Account deleted successfully.")
                   EXCEPT !.cookie_op = "delete"])

\* GET /login, main.py:208-210
login_page ==
    /\ UNCHANGED <<users, tasks, inflight, today>>
    /\ trail' = <<>>
    /\ Handled("/login", NoId, NoId, TemplateResponse("auth/login.html", "", <<>>))

\* POST /login, main.py:213-221
login(username, password) ==
    LET user == UserByName(username) IN
    /\ UNCHANGED <<users, tasks, inflight, today>>
    /\ trail' = <<>>
    /\ IF user = NoUser \/ ~verify_password(password, user.hashed_password)
       THEN Handled("/login", NoId, NoId,
                    TemplateResponse("auth/login.html", "Invalid credentials", <<>>))
       ELSE Handled("/login", user.id, NoId,
                    [RedirectResponse("/", 303) EXCEPT
                        !.cookie_op = "set", !.cookie_value = str(user.id)])

\* GET /signup, main.py:224-226
signup_page ==
    /\ UNCHANGED <<users, tasks, inflight, today>>
    /\ trail' = <<>>
    /\ Handled("/signup", NoId, NoId, TemplateResponse("auth/signup.html", "", <<>>))

\* POST /signup up to the new User object, main.py:229-235
signup(username, password) ==
    /\ UNCHANGED <<users, tasks, today>>
    /\ trail' = <<>>
    /\ IF UserByName(username) # NoUser
       THEN /\ Handled("/signup", NoId, NoId,
                       TemplateResponse("auth/signup.html", "Username already taken", <<>>))
            /\ UNCHANGED inflight
       ELSE /\ BagCardinality(inflight) < MaxInFlight
            /\ Handled("/signup", NoId, NoId, NoResponse)
            /\ inflight' = inflight (+) SetToBag({
                   [op |-> "signup", username |-> username,
                    hashed_password |-> get_password_hash(password)]})

\* POST /signup from the insert on, main.py:236-239
signup_commit(req) ==
    /\ req.op = "signup"
    /\ inflight' = inflight (-) SetToBag({req})
    /\ UNCHANGED <<tasks, today>>
    /\ trail' = <<>>
    /\ IF UniqueViolation(req.username)
       THEN /\ Handled("/signup", NoId, NoId, ServerError("IntegrityError"))
            /\ UNCHANGED users
       ELSE /\ NextId(users) <= MaxUserId
            /\ users' = users \cup {[id |-> NextId(users), username |-> req.username,
                                     hashed_password |-> req.hashed_password]}
            /\ Handled("/signup", NextId(users), NoId, RedirectResponse("/login", 303))

\* GET /logout, main.py:242-246
logout ==
    /\ UNCHANGED <<users, tasks, inflight, today>>
    /\ trail' = <<>>
    /\ Handled("/logout", NoId, NoId,
               [RedirectResponse("/login", 303) EXCEPT !.cookie_op = "delete"])

TaskIds == 1..MaxTaskId

\* No request is between its two halves.
Idle == inflight = EmptyBag

\* One request at a time: a request starts when none is in flight.
Next ==
    \/ \E cookies \in CookieJars : Idle /\ dashboard(cookies)
    \/ \E cookies \in CookieJars, title \in Titles, deadline \in DeadlineInputs,
          priority \in PriorityInputs :
            Idle /\ add_task(cookies, title, deadline, priority)
    \/ \E req \in BagToSet(inflight) : add_task_commit(req)
    \/ send_email_sync
    \/ \E cookies \in CookieJars, task_id \in TaskIds :
            Idle /\ complete_task(cookies, task_id)
    \/ \E cookies \in CookieJars, task_id \in TaskIds :
            Idle /\ delete_task(cookies, task_id)
    \/ \E cookies \in CookieJars : Idle /\ delete_account(cookies)
    \/ \E req \in BagToSet(inflight) : delete_account_commit(req)
    \/ Idle /\ login_page
    \/ \E username \in Usernames, password \in Passwords :
            Idle /\ login(username, password)
    \/ Idle /\ signup_page
    \/ \E username \in Usernames, password \in NewPasswords :
            Idle /\ signup(username, password)
    \/ \E req \in BagToSet(inflight) : signup_commit(req)
    \/ Idle /\ logout

Spec == Init /\ [][Next]_vars

\* Cookies as login sets them.
SessionJars == { { <<"user_id", str(n)>> } : n \in 1..MaxUserId }

\* The split requests interleaved: one may start while others are in
\* flight, up to MaxInFlight of them.
NextConcurrent ==
    \/ \E cookies \in SessionJars, title \in Titles, deadline \in DeadlineInputs,
          priority \in PriorityInputs : add_task(cookies, title, deadline, priority)
    \/ \E req \in BagToSet(inflight) : add_task_commit(req)
    \/ send_email_sync
    \/ \E cookies \in SessionJars : delete_account(cookies)
    \/ \E req \in BagToSet(inflight) : delete_account_commit(req)
    \/ \E username \in Usernames, password \in NewPasswords :
            signup(username, password)
    \/ \E req \in BagToSet(inflight) : signup_commit(req)

SpecConcurrent == Init /\ [][NextConcurrent]_vars

----------------------------------------------------------------------------
(* Properties. *)

\* The user a request with these cookies acts as, NoUser when it has none.
Identity(cookies) == get_current_user(cookies).user

\* C1: whatever requests came before, a request made with the identity of
\* one user is shown only tasks whose owner_id is that user's id, and
\* every task it toggles or deletes has that owner_id: a task of another
\* owner is in the table afterwards exactly as it was.
C1_OwnerIsolation ==
    [][/\ \A t \in tasks \ tasks' :
            last_request'.identity # NoId /\ t.owner_id = last_request'.identity
       /\ \A i \in DOMAIN response'.tasks :
            /\ last_request'.identity # NoId
            /\ response'.tasks[i].owner_id = last_request'.identity
      ]_vars

\* A user has just asked to complete or delete a task of another user,
\* and the task is there.
C1_Witness ==
    \E t \in tasks :
        /\ last_request.route \in {"/complete", "/delete"}
        /\ last_request.task_id = t.id
        /\ last_request.identity # NoId
        /\ t.owner_id # NoId
        /\ t.owner_id # last_request.identity
        /\ response.kind = "redirect"

\* C2: an add-task request of a logged-in user whose deadline parses to a
\* date strictly before today is rejected, whatever its title and
\* priority: the task table stays as it was and nothing is left to commit.
C2_PastDeadlineRejected ==
    [][\A deadline \in DeadlineInputs :
        ( /\ last_request'.route = "/add" /\ last_request'.identity # NoId
          /\ fromisoformat(deadline).exc = ""
          /\ DateLT(fromisoformat(deadline).date, today) )
        => \A cookies \in CookieJars :
              Identity(cookies) # NoUser
              => \A title \in Titles, priority \in PriorityInputs :
                    add_task(cookies, title, deadline, priority)
                    => /\ tasks' = tasks
                       /\ inflight' = inflight
                       /\ response'.kind = "redirect" /\ response'.target = "/"
      ]_vars

\* An add-task request was just rejected for its past deadline, with
\* tasks stored.
C2_Witness ==
    /\ last_request.route = "/add"
    /\ last_request.identity # NoId
    /\ response.flash = "Error: Cannot add tasks in the past!"
    /\ tasks # {}

\* The jobs the claim allows for a new task row: one to the owner's
\* username when the priority is High and that username has an "@",
\* none otherwise.
JobsFor(t, jobs) ==
    LET owners == {u \in users : u.id = t.owner_id} IN
    IF t.priority = "High" /\ \E u \in owners : HasAt(u.username)
    THEN /\ Len(jobs) = 1
         /\ \A u \in owners : jobs[1].email_to = u.username
    ELSE jobs = <<>>

\* C3: an add-task request that creates a task schedules exactly one
\* notification job, to the owner's username, when the priority is High
\* and that username contains "@", and none for any other priority and
\* username; no other step, a rejected add-task request among them,
\* schedules a job.
C3_NotificationJobs ==
    [][IF \E req \in BagToSet(inflight) : add_task_commit(req)
       THEN /\ Cardinality(tasks' \ tasks) = 1
            /\ \A t \in tasks' \ tasks : JobsFor(t, response'.background)
       ELSE response'.background = <<>>
      ]_vars

\* A job was just scheduled, and a High task of a user without "@" was
\* added without one.
C3_Witness ==
    /\ last_request.route = "/add"
    /\ Len(response.background) = 1
    /\ \E t \in tasks :
        /\ t.id = last_request.task_id
        /\ t.priority = "High"
        /\ HasAt(GetUser(t.owner_id).username)
        /\ response.background[1].email_to = GetUser(t.owner_id).username

\* C4: two consecutive complete requests of the owner on a task bring it
\* back to the status it had: Pending, Completed, Pending or Completed,
\* Pending, Completed; the trail ends in the status the task has now.
C4_ToggleTwice ==
    /\ Len(trail) = 2 => trail \in {<<Pending, Completed>>, <<Completed, Pending>>}
    /\ Len(trail) = 3 => trail \in {<<Pending, Completed, Pending>>,
                                    <<Completed, Pending, Completed>>}
    /\ trail # <<>> =>
          /\ TaskExists(last_request.task_id)
          /\ TaskById(last_request.task_id).status = trail[Len(trail)]
          /\ TaskById(last_request.task_id).owner_id = last_request.identity

\* A task that was Completed was just completed twice in a row.
C4_Witness == Len(trail) = 3 /\ trail[1] = Completed

\* C5: when a delete-account request of user U completes, no task has
\* owner_id = U, the user row U is gone, no task id that U owned is found
\* any more, and the rows of every other user are as they were.
C5_AccountDeleted ==
    [][\A req \in BagToSet(inflight) :
        delete_account_commit(req) =>
            /\ \A t \in tasks' : t.owner_id # req.user_id
            /\ \A u \in users' : u.id # req.user_id
            /\ \A t \in tasks : t.owner_id = req.user_id => ~\E x \in tasks' : x.id = t.id
            /\ \A t \in tasks : t.owner_id # req.user_id => t \in tasks'
            /\ \A u \in users : u.id # req.user_id => u \in users'
      ]_vars

\* C6: no two user rows have the same username, also when sign-up
\* requests with one username run interleaved.
C6_UniqueUsername ==
    \A u1, u2 \in users : u1.username = u2.username => u1 = u2

\* Two sign-ups with one username both passed the check; the insert of
\* the second was just refused, and the username is stored.
C6_Witness ==
    /\ last_request.route = "/signup"
    /\ response.target = "IntegrityError"
    /\ users # {}

\* The routes that need a user.
Protected(cookies) ==
    \/ dashboard(cookies)
    \/ \E title \in Titles, deadline \in DeadlineInputs, priority \in PriorityInputs :
          add_task(cookies, title, deadline, priority)
    \/ \E task_id \in TaskIds : complete_task(cookies, task_id)
    \/ \E task_id \in TaskIds : delete_task(cookies, task_id)
    \/ delete_account(cookies)

\* C7: a request to a protected route whose cookie is absent or resolves
\* to no user is answered with a redirect to /login, changes no row and
\* schedules no job.
C7_AnonymousRedirected ==
    [][\A cookies \in CookieJars :
        (Identity(cookies) = NoUser /\ Protected(cookies)) =>
            /\ response'.kind = "redirect" /\ response'.target = "/login"
            /\ response'.background = <<>>
            /\ UNCHANGED <<users, tasks, inflight>>
      ]_vars

\* C8: the owner_id of every stored task is the id of a stored user, and
\* a task keeps its owner_id as long as it is stored.
C8_TaskHasOwner ==
    [][/\ \A x \in tasks' : \E u \in users' : u.id = x.owner_id
       /\ \A t \in tasks, x \in tasks' : x.id = t.id => x.owner_id = t.owner_id
      ]_vars

\* C9: an add-task request of a logged-in user is rejected with a
\* redirect that carries a flash message, when the deadline does not parse
\* and when it parses to a date before today.
C9_RejectionFlash ==
    [][\A cookies \in CookieJars, title \in Titles, deadline \in DeadlineInputs,
          priority \in PriorityInputs :
        ( /\ Identity(cookies) # NoUser
          /\ \/ fromisoformat(deadline).exc # ""
             \/ DateLT(fromisoformat(deadline).date, today)
          /\ add_task(cookies, title, deadline, priority) )
        => /\ response'.kind = "redirect"
           /\ response'.flash # ""
           /\ UNCHANGED <<tasks, inflight>>
      ]_vars

\* C10: a delete-task request of a logged-in user for an id that is not
\* stored, or is the task of another user, changes no row and sets no
\* flash message; for a task of the user it removes that row and no other.
C10_DeleteTaskFrame ==
    [][\A cookies \in CookieJars, task_id \in TaskIds :
        (Identity(cookies) # NoUser /\ delete_task(cookies, task_id)) =>
            IF \E t \in tasks : t.id = task_id /\ t.owner_id = Identity(cookies).id
            THEN /\ tasks' = {t \in tasks : t.id # task_id}
                 /\ users' = users
            ELSE /\ UNCHANGED <<users, tasks>>
                 /\ response'.flash = ""
      ]_vars

====
